---- MODULE Spec2Model ----
(***************************************************************************)
(* Query layer of the dashboard (src/app/lib/data.ts): eight exported      *)
(* async functions reading the tables invoices, customers and revenue      *)
(* through a table client ({data, error} results) and a SQL client (rows   *)
(* or a thrown exception).  One call is followed from its start to its     *)
(* outcome; each await is a state in which the issued request is in        *)
(* flight, and the step that resumes the function draws the client's       *)
(* answer.                                                                 *)
(***************************************************************************)
EXTENDS Integers, Sequences, FiniteSets, TLC

VARIABLES invoices, customers, revenue, fn, pc, args, inflight, resp, outcome, log

vars == <<invoices, customers, revenue, fn, pc, args, inflight, resp, outcome, log>>

store == <<invoices, customers, revenue>>

\* ---------------------------------------------------------------- bounds
MaxInvoices == 7

MaxPage == 2

\* ------------------------------------------------------ program constants
ITEMS_PER_PAGE == 6

LATEST_LIMIT == 5

CENTS_PER_UNIT == 100

\* ------------------------------------------------------------------ text
\* Text is a sequence of one-character strings.
DigitChars == <<"0", "1", "2", "3", "4", "5", "6", "7", "8", "9">>

RECURSIVE Digits(_)
Digits(n) == IF n < 10 THEN <<DigitChars[n + 1]>>
             ELSE Digits(n \div 10) \o <<DigitChars[(n % 10) + 1]>>

Fold == [A |-> "a", B |-> "b", E |-> "e", N |-> "n", P |-> "p"]

Lower(c) == IF c \in DOMAIN Fold THEN Fold[c] ELSE c

\* text ILIKE '%q%': q occurs in text, letter case ignored.
ILike(text, q) ==
    \E i \in 0..(Len(text) - Len(q)) :
        \A j \in 1..Len(q) : Lower(text[i + j]) = Lower(q[j])

\* Collation used by ORDER BY name: position in this alphabet.
Alphabet == DigitChars \o <<"@", "/", "A", "a", "B", "b", "l", "o", "x">>

Rank(c) == CHOOSE i \in 1..Len(Alphabet) : Alphabet[i] = c

RECURSIVE TextLess(_, _)
TextLess(a, b) ==
    IF a = <<>> THEN b # <<>>
    ELSE IF b = <<>> THEN FALSE
    ELSE IF Head(a) = Head(b) THEN TextLess(Tail(a), Tail(b))
    ELSE Rank(Head(a)) < Rank(Head(b))

Min(a, b) == IF a < b THEN a ELSE b

\* ----------------------------------------------------------------- store
StatusText(s) == IF s = "paid" THEN <<"p", "a", "i", "d">>
                 ELSE <<"p", "e", "n", "d", "i", "n", "g">>

DateText(d) == <<"2", "4", "-", "0", "1", "-">> \o Digits(d)

CustomerAl == [id |-> 1, name |-> <<"A", "l">>, email |-> <<"a", "l", "@", "x">>,
               image_url |-> <<"/", "1">>]

CustomerBo == [id |-> 2, name |-> <<"B", "o">>, email |-> <<"b", "o", "@", "x">>,
               image_url |-> <<"/", "2">>]

\* Contents of the customers table, in storage order.  Invoices of a customer
\* missing from the table reference no customer row.
CustomerTables == {<<>>, <<CustomerAl>>, <<CustomerBo, CustomerAl>>}

InvoiceKinds == {"A", "B"}

\* The i-th stored invoice: dates are pairwise distinct and not in storage
\* order, so ORDER BY date is a real reordering with one outcome.
MkInvoice(i, k) ==
    [id |-> i,
     customer_id |-> IF k = "A" THEN 1 ELSE 2,
     amount |-> IF k = "A" THEN 100000 ELSE 50050,
     status |-> IF k = "A" THEN "paid" ELSE "pending",
     date |-> 10 + ((i * 3) % 11)]

RevenueTables == {<<>>, <<[month |-> "Jan", revenue |-> 2000], [month |-> "Feb", revenue |-> 1800]>>}

Queries == {<<>>, <<"B">>, <<"e", "N">>, <<"0", "0", "0">>}

Pages == 0..MaxPage

IdArgs == {1, 2}

ErrorCauses == {"connection refused"}

NoArgs == [query |-> <<>>, currentPage |-> 1, id |-> 0]

NoOutcome == [kind |-> "none", message |-> "", value |-> <<>>]

\* ------------------------------------------------------- returned values
\* A number is the rational num/den; a string carries its text.
Num(n) == [type |-> "number", num |-> n, den |-> 1, text |-> <<>>]

Str(t) == [type |-> "string", num |-> 0, den |-> 1, text |-> t]

\* x / k
Div(x, k) == [x EXCEPT !.den = x.den * k]

Undefined == [def |-> FALSE, text |-> <<>>]

Some(t) == [def |-> TRUE, text |-> t]

RECURSIVE Grouped(_)
Grouped(n) ==
    IF n < 1000 THEN Digits(n)
    ELSE Grouped(n \div 1000) \o <<",">> \o
         <<DigitChars[((n % 1000) \div 100) + 1], DigitChars[((n % 100) \div 10) + 1],
           DigitChars[(n % 10) + 1]>>

\* Integer cents to a US-dollar display string: 100000 -> "$1,000.00".
formatCurrency(amount) ==
    Str(<<"$">> \o Grouped(amount.num \div CENTS_PER_UNIT) \o <<".">> \o
        <<DigitChars[((amount.num % CENTS_PER_UNIT) \div 10) + 1],
          DigitChars[(amount.num % 10) + 1]>>)

\* ---------------------------------------------------------- table client
\* A request built on the table client: from(table).select(columns) with the
\* modifiers the code chains on it.
TableRequest(table, columns) ==
    [client |-> "table", table |-> table, columns |-> columns,
     orderDateDesc |-> FALSE, limited |-> FALSE, limit |-> 0,
     ranged |-> FALSE, from |-> 0, to |-> 0,
     filtered |-> FALSE, pattern |-> <<>>,
     hasIn |-> FALSE, ids |-> {}]

Order(req) == [req EXCEPT !.orderDateDesc = TRUE]

Limit(req, n) == [req EXCEPT !.limited = TRUE, !.limit = n]

Range(req, from, to) == [req EXCEPT !.ranged = TRUE, !.from = from, !.to = to]

Or(req, pattern) == [req EXCEPT !.filtered = TRUE, !.pattern = pattern]

In(req, ids) == [req EXCEPT !.hasIn = TRUE, !.ids = ids]

CustomerOf(inv) == SelectSeq(customers, LAMBDA c : c.id = inv.customer_id)

\* The OR-combined condition of fetchFilteredInvoices on one invoice row with
\* its embedded customer (absent: the customer columns are null, no match).
OrMatches(inv, pattern) ==
    \/ \E i \in 1..Len(CustomerOf(inv)) : ILike(CustomerOf(inv)[i].name, pattern)
    \/ \E i \in 1..Len(CustomerOf(inv)) : ILike(CustomerOf(inv)[i].email, pattern)
    \/ ILike(Digits(inv.amount), pattern)
    \/ ILike(DateText(inv.date), pattern)
    \/ ILike(StatusText(inv.status), pattern)

RECURSIVE SortDateDesc(_)
SortDateDesc(rows) ==
    IF rows = <<>> THEN <<>>
    ELSE LET m == CHOOSE i \in 1..Len(rows) :
                      \A j \in 1..Len(rows) :
                          \/ rows[j].date < rows[i].date
                          \/ (rows[j].date = rows[i].date /\ i <= j)
         IN  <<rows[m]>> \o
             SortDateDesc([k \in 1..(Len(rows) - 1) |->
                              IF k < m THEN rows[k] ELSE rows[k + 1]])

Embedded(inv) ==
    IF CustomerOf(inv) = <<>>
    THEN [def |-> FALSE, name |-> <<>>, email |-> <<>>, image_url |-> <<>>]
    ELSE [def |-> TRUE, name |-> CustomerOf(inv)[1].name,
          email |-> CustomerOf(inv)[1].email,
          image_url |-> CustomerOf(inv)[1].image_url]

Project(row, columns) ==
    CASE columns = "month, revenue" -> row
      [] columns = "amount, id, customer_id, date" ->
            [amount |-> Num(row.amount), id |-> row.id,
             customer_id |-> row.customer_id, date |-> row.date]
      [] columns = "id, name, email, image_url" -> row
      [] columns = "customers.*" -> row
      [] columns = "invoices.*" -> [row EXCEPT !.amount = Num(row.amount)]
      [] columns = "status, amount" ->
            [status |-> row.status, amount |-> Num(row.amount)]
      [] columns = "id, amount, date, status, customers(name, email, image_url)" ->
            [id |-> row.id, amount |-> Num(row.amount), date |-> row.date,
             status |-> row.status, customers |-> Embedded(row)]

Table(name) == CASE name = "invoices" -> invoices
                 [] name = "customers" -> customers
                 [] name = "revenue" -> revenue

\* The rows the store answers a table request with: filter, order, slice,
\* project.
TableSelect(req) ==
    LET all == Table(req.table)
        f1 == IF req.filtered
              THEN SelectSeq(all, LAMBDA r : OrMatches(r, req.pattern)) ELSE all
        f2 == IF req.hasIn THEN SelectSeq(f1, LAMBDA r : r.id \in req.ids) ELSE f1
        o  == IF req.orderDateDesc THEN SortDateDesc(f2) ELSE f2
        r1 == IF req.ranged THEN SubSeq(o, req.from + 1, Min(req.to + 1, Len(o))) ELSE o
        r2 == IF req.limited THEN SubSeq(r1, 1, Min(req.limit, Len(r1))) ELSE r1
    IN  [i \in 1..Len(r2) |-> Project(r2[i], req.columns)]

TableData(rows) == [kind |-> "data", data |-> rows, message |-> ""]

TableNull == [kind |-> "null", data |-> <<>>, message |-> ""]

TableError(cause) == [kind |-> "error", data |-> <<>>, message |-> cause]

\* What awaiting a table request can yield: {data, error: null}, data null
\* without an error, or {data: null, error}.  A slice with a negative bound
\* is rejected by the store.
TableAnswers(req) ==
    {TableError(c) : c \in ErrorCauses} \cup {TableNull} \cup
    (IF req.ranged /\ (req.from < 0 \/ req.to < 0) THEN {} ELSE {TableData(TableSelect(req))})

\* ------------------------------------------------------------- outcomes
Return(v) == [kind |-> "return", message |-> "", value |-> v]

Throw(m) == [kind |-> "throw", message |-> m, value |-> <<>>]

Idle == pc \in {"idle", "done"}

\* Entering an exported function: the previous call's trace is dropped.
Enter(name, a, req) ==
    /\ fn' = name
    /\ args' = a
    /\ pc' = "await1"
    /\ inflight' = {req}
    /\ resp' = <<>>
    /\ outcome' = NoOutcome
    /\ log' = <<>>
    /\ UNCHANGED store

\* try { ... } catch (error) { console.error(error); throw new Error(generic) }
Fail(r, cause, generic) ==
    /\ pc' = "done"
    /\ inflight' = {}
    /\ resp' = Append(resp, r)
    /\ log' = Append(log, cause)
    /\ outcome' = Throw(generic)
    /\ UNCHANGED <<store, fn, args>>

Succeed(r, v) ==
    /\ pc' = "done"
    /\ inflight' = {}
    /\ resp' = Append(resp, r)
    /\ outcome' = Return(v)
    /\ UNCHANGED <<store, fn, args, log>>

\* The function goes on to its next await.
Continue(r, next, req) ==
    /\ pc' = next
    /\ inflight' = {req}
    /\ resp' = Append(resp, r)
    /\ UNCHANGED <<store, fn, args, outcome, log>>

At(name, where) == fn = name /\ pc = where

\* --------------------------------------------------------- fetchRevenue
fetchRevenue_Call ==
    /\ Idle
    /\ Enter("fetchRevenue", NoArgs, TableRequest("revenue", "month, revenue"))

fetchRevenue_Resume ==
    /\ At("fetchRevenue", "await1")
    /\ \E req \in inflight : \E r \in TableAnswers(req) :
          IF r.kind = "error"
          THEN Fail(r, <<r.message>>, "Failed to fetch revenue data.")
          ELSE IF r.kind = "null"
          THEN Fail(r, <<"No se encontraron datos en la tabla 'revenue'.">>,
                    "Failed to fetch revenue data.")
          ELSE Succeed(r, r.data)

\* -------------------------------------------------- fetchLatestInvoices
fetchLatestInvoices_Call ==
    /\ Idle
    /\ Enter("fetchLatestInvoices", NoArgs,
             Limit(Order(TableRequest("invoices", "amount, id, customer_id, date")),
                   LATEST_LIMIT))

fetchLatestInvoices_Resume1 ==
    /\ At("fetchLatestInvoices", "await1")
    /\ \E req \in inflight : \E r \in TableAnswers(req) :
          IF r.kind = "error"
          THEN Fail(r, <<"Supabase query failed: ", r.message>>,
                    "Failed to fetch the latest invoices.")
          ELSE IF r.kind = "null" \/ Len(r.data) = 0
          THEN Succeed(r, <<>>)
          ELSE Continue(r, "await2",
                        In(TableRequest("customers", "id, name, email, image_url"),
                           {r.data[i].customer_id : i \in 1..Len(r.data)}))

\* data.map(invoice => {...}) over the fetched invoices, joined by customer id.
LatestInvoice(invoice, custs) ==
    LET found == SelectSeq(custs, LAMBDA c : c.id = invoice.customer_id)
    IN  [id |-> invoice.id,
         amount |-> formatCurrency(invoice.amount),
         name |-> IF found = <<>> THEN Undefined ELSE Some(found[1].name),
         email |-> IF found = <<>> THEN Undefined ELSE Some(found[1].email),
         image_url |-> IF found = <<>> THEN Undefined ELSE Some(found[1].image_url)]

fetchLatestInvoices_Resume2 ==
    /\ At("fetchLatestInvoices", "await2")
    /\ \E req \in inflight : \E r \in TableAnswers(req) :
          IF r.kind = "error"
          THEN Fail(r, <<"Failed to fetch customers: ", r.message>>,
                    "Failed to fetch the latest invoices.")
          ELSE IF r.kind = "null"
          THEN Fail(r, <<"TypeError: Cannot read properties of null (reading 'find')">>,
                    "Failed to fetch the latest invoices.")
          ELSE Succeed(r, [i \in 1..Len(resp[1].data) |->
                              LatestInvoice(resp[1].data[i], r.data)])

\* -------------------------------------------------------- fetchCardData
fetchCardData_Call ==
    /\ Idle
    /\ Enter("fetchCardData", NoArgs, TableRequest("invoices", "invoices.*"))

\* The first await has completed before the second query is built.
fetchCardData_Resume1 ==
    /\ At("fetchCardData", "await1")
    /\ \E req \in inflight : \E r \in TableAnswers(req) :
          Continue(r, "await2", TableRequest("customers", "customers.*"))

fetchCardData_Resume2 ==
    /\ At("fetchCardData", "await2")
    /\ \E req \in inflight : \E r \in TableAnswers(req) :
          Continue(r, "await3", TableRequest("invoices", "status, amount"))

RECURSIVE SumAmounts(_)
SumAmounts(rows) ==
    IF rows = <<>> THEN 0 ELSE Head(rows).amount.num + SumAmounts(Tail(rows))

\* Variant: the status filter is dropped, every amount is summed.
TotalWithStatus_NoFilter(r, status) ==
    IF r.kind = "null" THEN Num(0) ELSE Num(SumAmounts(r.data))

\* invoiceData?.filter(i => i.status === status).reduce(sum + amount, 0) ?? 0
TotalWithStatus(r, status) ==
    IF r.kind = "null" THEN Num(0)
    ELSE Num(SumAmounts(SelectSeq(r.data, LAMBDA i : i.status = status)))

CardData(invoiceR, customerR) ==
    [numberOfCustomers |-> IF customerR.kind = "null" THEN 0 ELSE Len(customerR.data),
     numberOfInvoices |-> IF invoiceR.kind = "null" THEN 0 ELSE Len(invoiceR.data),
     totalPaidInvoices |-> formatCurrency(TotalWithStatus(invoiceR, "paid")),
     totalPendingInvoices |-> formatCurrency(TotalWithStatus(invoiceR, "pending"))]

fetchCardData_Resume3 ==
    /\ At("fetchCardData", "await3")
    /\ \E req \in inflight : \E r \in TableAnswers(req) :
          IF resp[1].kind = "error"
          THEN Fail(r, <<"Error fetching invoices: ", resp[1].message>>,
                    "Failed to fetch card data.")
          ELSE IF resp[2].kind = "error"
          THEN Fail(r, <<"Error fetching customers: ", resp[2].message>>,
                    "Failed to fetch card data.")
          ELSE IF r.kind = "error"
          THEN Fail(r, <<"Error fetching invoice statuses: ", r.message>>,
                    "Failed to fetch card data.")
          ELSE Succeed(r, CardData(resp[1], resp[2]))

\* ------------------------------------------------ fetchFilteredInvoices
Offset(currentPage) == (currentPage - 1) * ITEMS_PER_PAGE

\* Variant: the condition is built but never attached to the awaited request.
FilteredInvoicesQuery_NoOr(query, currentPage) ==
    Range(Order(TableRequest("invoices",
          "id, amount, date, status, customers(name, email, image_url)")),
          Offset(currentPage), Offset(currentPage) + ITEMS_PER_PAGE - 1)

\* The builder is mutated in place: .or() on baseQuery changes the request that
\* is awaited afterwards.
FilteredInvoicesQuery(query, currentPage) ==
    LET baseQuery ==
            Range(Order(TableRequest("invoices",
                  "id, amount, date, status, customers(name, email, image_url)")),
                  Offset(currentPage), Offset(currentPage) + ITEMS_PER_PAGE - 1)
    IN  IF query # <<>> THEN Or(baseQuery, query) ELSE baseQuery

fetchFilteredInvoices_Call ==
    /\ Idle
    /\ \E query \in Queries : \E currentPage \in Pages :
           Enter("fetchFilteredInvoices",
                 [NoArgs EXCEPT !.query = query, !.currentPage = currentPage],
                 FilteredInvoicesQuery(query, currentPage))

\* return data: the rows as received, or null when the client gave no data.
AsReceived(r) == [null |-> r.kind = "null", rows |-> r.data]

fetchFilteredInvoices_Resume ==
    /\ At("fetchFilteredInvoices", "await1")
    /\ \E req \in inflight : \E r \in TableAnswers(req) :
          IF r.kind = "error"
          THEN /\ pc' = "done"
               /\ inflight' = {}
               /\ resp' = Append(resp, r)
               /\ log' = log \o <<<<"Supabase Error:", r.message>>,
                                  <<"Failed to fetch invoices.">>>>
               /\ outcome' = Throw("Failed to fetch invoices.")
               /\ UNCHANGED <<store, fn, args>>
          ELSE Succeed(r, AsReceived(r))

\* ------------------------------------------------------------ SQL client
SqlRows(rows) == [kind |-> "rows", rows |-> rows, message |-> ""]

SqlThrown(cause) == [kind |-> "thrown", rows |-> <<>>, message |-> cause]

\* invoices JOIN customers ON invoices.customer_id = customers.id WHERE
\* name ILIKE q OR email ILIKE q OR amount::text ILIKE q OR date::text ILIKE q
\* OR status ILIKE q
JoinMatches(inv, query) ==
    \E i \in 1..Len(customers) :
        /\ inv.customer_id = customers[i].id
        /\ \/ ILike(customers[i].name, query)
           \/ ILike(customers[i].email, query)
           \/ ILike(Digits(inv.amount), query)
           \/ ILike(DateText(inv.date), query)
           \/ ILike(StatusText(inv.status), query)

CountInvoices(query) ==
    <<[count |-> Digits(Len(SelectSeq(invoices, LAMBDA inv : JoinMatches(inv, query))))]>>

InvoiceById(id) ==
    LET found == SelectSeq(invoices, LAMBDA inv : inv.id = id)
    IN  [i \in 1..Len(found) |->
            [id |-> found[i].id, customer_id |-> found[i].customer_id,
             amount |-> Num(found[i].amount), status |-> found[i].status]]

RECURSIVE SortNameAsc(_)
SortNameAsc(rows) ==
    IF rows = <<>> THEN <<>>
    ELSE LET m == CHOOSE i \in 1..Len(rows) :
                      \A j \in 1..Len(rows) :
                          \/ TextLess(rows[i].name, rows[j].name)
                          \/ (rows[i].name = rows[j].name /\ i <= j)
         IN  <<rows[m]>> \o
             SortNameAsc([k \in 1..(Len(rows) - 1) |->
                             IF k < m THEN rows[k] ELSE rows[k + 1]])

AllCustomers ==
    LET sorted == SortNameAsc(customers)
    IN  [i \in 1..Len(sorted) |-> [id |-> sorted[i].id, name |-> sorted[i].name]]

RECURSIVE SumCents(_)
SumCents(rows) == IF rows = <<>> THEN 0 ELSE Head(rows).amount + SumCents(Tail(rows))

\* customers LEFT JOIN invoices, grouped by customer.
CustomerAggregate(c) ==
    LET own == SelectSeq(invoices, LAMBDA inv : inv.customer_id = c.id)
    IN  [id |-> c.id, name |-> c.name, email |-> c.email, image_url |-> c.image_url,
         total_invoices |-> Num(Len(own)),
         total_pending |->
            Num(SumCents(SelectSeq(own, LAMBDA inv : inv.status = "pending"))),
         total_paid |->
            Num(SumCents(SelectSeq(own, LAMBDA inv : inv.status = "paid")))]

FilteredCustomers(query) ==
    LET sorted == SortNameAsc(SelectSeq(customers,
                      LAMBDA c : ILike(c.name, query) \/ ILike(c.email, query)))
    IN  [i \in 1..Len(sorted) |-> CustomerAggregate(sorted[i])]

SqlRequest(statement, param) == [client |-> "sql", statement |-> statement, param |-> param]

SqlSelect(req) ==
    CASE req.statement = "count invoices" -> CountInvoices(req.param)
      [] req.statement = "invoice by id" -> InvoiceById(req.param)
      [] req.statement = "customers" -> AllCustomers
      [] req.statement = "filtered customers" -> FilteredCustomers(req.param)

\* Awaiting a SQL statement yields its rows or throws.
SqlAnswers(req) == {SqlThrown(c) : c \in ErrorCauses} \cup {SqlRows(SqlSelect(req))}

\* --------------------------------------------------- fetchInvoicesPages
RECURSIVE ParseNumber(_)
ParseNumber(text) ==
    IF text = <<>> THEN 0
    ELSE 10 * ParseNumber(SubSeq(text, 1, Len(text) - 1)) +
         ((CHOOSE d \in 1..10 : DigitChars[d] = text[Len(text)]) - 1)

\* Variant: Math.floor in place of Math.ceil.
Ceil_Floor(x) == x.num \div x.den

\* Math.ceil of a non-negative rational
Ceil(x) == (x.num \div x.den) + (IF x.num % x.den # 0 THEN 1 ELSE 0)

TotalPages(count) == Ceil(Div(Num(ParseNumber(count.rows[1].count)), ITEMS_PER_PAGE))

fetchInvoicesPages_Call ==
    /\ Idle
    /\ \E query \in Queries :
           Enter("fetchInvoicesPages", [NoArgs EXCEPT !.query = query],
                 SqlRequest("count invoices", query))

\* Variant: the catch block rethrows the caught error itself.
fetchInvoicesPages_Resume_Rethrow ==
    /\ At("fetchInvoicesPages", "await1")
    /\ \E req \in inflight : \E r \in SqlAnswers(req) :
          IF r.kind = "thrown"
          THEN Fail(r, <<r.message>>, r.message)
          ELSE Succeed(r, TotalPages(r))

fetchInvoicesPages_Resume ==
    /\ At("fetchInvoicesPages", "await1")
    /\ \E req \in inflight : \E r \in SqlAnswers(req) :
          IF r.kind = "thrown"
          THEN Fail(r, <<r.message>>, "Failed to fetch total number of invoices.")
          ELSE Succeed(r, TotalPages(r))

\* ----------------------------------------------------- fetchInvoiceById
\* Variant: the rows are passed on without the division.
InvoiceForm_NoDivide(invoice) == invoice

\* data.rows.map(invoice => ({...invoice, amount: invoice.amount / 100}))
InvoiceForm(invoice) == [invoice EXCEPT !.amount = Div(invoice.amount, CENTS_PER_UNIT)]

\* invoice[0]: undefined on an empty array
First(rows) ==
    IF rows = <<>> THEN [def |-> FALSE, row |-> <<>>] ELSE [def |-> TRUE, row |-> <<rows[1]>>]

fetchInvoiceById_Call ==
    /\ Idle
    /\ \E id \in IdArgs :
           Enter("fetchInvoiceById", [NoArgs EXCEPT !.id = id], SqlRequest("invoice by id", id))

fetchInvoiceById_Resume ==
    /\ At("fetchInvoiceById", "await1")
    /\ \E req \in inflight : \E r \in SqlAnswers(req) :
          IF r.kind = "thrown"
          THEN Fail(r, <<r.message>>, "Failed to fetch invoice.")
          ELSE Succeed(r, First([i \in 1..Len(r.rows) |-> InvoiceForm(r.rows[i])]))

\* ------------------------------------------------------- fetchCustomers
fetchCustomers_Call ==
    /\ Idle
    /\ Enter("fetchCustomers", NoArgs, SqlRequest("customers", <<>>))

fetchCustomers_Resume ==
    /\ At("fetchCustomers", "await1")
    /\ \E req \in inflight : \E r \in SqlAnswers(req) :
          IF r.kind = "thrown"
          THEN Fail(r, <<r.message>>, "Failed to fetch all customers.")
          ELSE Succeed(r, r.rows)

\* ----------------------------------------------- fetchFilteredCustomers
CustomersTableRow(customer) ==
    [customer EXCEPT !.total_pending = formatCurrency(customer.total_pending),
                     !.total_paid = formatCurrency(customer.total_paid)]

fetchFilteredCustomers_Call ==
    /\ Idle
    /\ \E query \in Queries :
           Enter("fetchFilteredCustomers", [NoArgs EXCEPT !.query = query],
                 SqlRequest("filtered customers", query))

fetchFilteredCustomers_Resume ==
    /\ At("fetchFilteredCustomers", "await1")
    /\ \E req \in inflight : \E r \in SqlAnswers(req) :
          IF r.kind = "thrown"
          THEN Fail(r, <<r.message>>, "Failed to fetch customer table.")
          ELSE Succeed(r, [i \in 1..Len(r.rows) |-> CustomersTableRow(r.rows[i])])

\* ------------------------------------------------------------------ spec
Init ==
    /\ \E n \in 0..MaxInvoices : \E ks \in [1..n -> InvoiceKinds] :
          invoices = [i \in 1..n |-> MkInvoice(i, ks[i])]
    /\ customers \in CustomerTables
    /\ revenue \in RevenueTables
    /\ fn = "none"
    /\ pc = "idle"
    /\ args = NoArgs
    /\ inflight = {}
    /\ resp = <<>>
    /\ outcome = NoOutcome
    /\ log = <<>>

Next ==
    \/ fetchRevenue_Call
    \/ fetchRevenue_Resume
    \/ fetchLatestInvoices_Call
    \/ fetchLatestInvoices_Resume1
    \/ fetchLatestInvoices_Resume2
    \/ fetchCardData_Call
    \/ fetchCardData_Resume1
    \/ fetchCardData_Resume2
    \/ fetchCardData_Resume3
    \/ fetchFilteredInvoices_Call
    \/ fetchFilteredInvoices_Resume
    \/ fetchInvoicesPages_Call
    \/ fetchInvoicesPages_Resume
    \/ fetchInvoiceById_Call
    \/ fetchInvoiceById_Resume
    \/ fetchCustomers_Call
    \/ fetchCustomers_Resume
    \/ fetchFilteredCustomers_Call
    \/ fetchFilteredCustomers_Resume

Spec == Init /\ [][Next]_vars

\* ================================================================ claims
Done(name) == fn = name /\ pc = "done"

PaidCents == SumCents(SelectSeq(invoices, LAMBDA inv : inv.status = "paid"))

PendingCents == SumCents(SelectSeq(invoices, LAMBDA inv : inv.status = "pending"))

\* C1: in each of the eight functions, a call in which a backing query failed
\* (error value on the table client, exception on the SQL client) ends by
\* throwing that function's fixed generic message and returns nothing; the
\* cause is logged and is not the message the caller receives.
C1_GenericErrorOnFailure ==
    (pc = "done" /\ \E i \in 1..Len(resp) : resp[i].kind \in {"error", "thrown"}) =>
        /\ outcome.kind = "throw"
        /\ outcome.value = <<>>
        /\ outcome.message =
              (CASE fn = "fetchRevenue" -> "Failed to fetch revenue data."
                 [] fn = "fetchLatestInvoices" -> "Failed to fetch the latest invoices."
                 [] fn = "fetchCardData" -> "Failed to fetch card data."
                 [] fn = "fetchFilteredInvoices" -> "Failed to fetch invoices."
                 [] fn = "fetchInvoicesPages" -> "Failed to fetch total number of invoices."
                 [] fn = "fetchInvoiceById" -> "Failed to fetch invoice."
                 [] fn = "fetchCustomers" -> "Failed to fetch all customers."
                 [] fn = "fetchFilteredCustomers" -> "Failed to fetch customer table.")
        /\ \A i \in 1..Len(resp) : resp[i].kind \in {"error", "thrown"} =>
              outcome.message # resp[i].message
        /\ \E i \in 1..Len(resp) : \E k \in 1..Len(log) :
              /\ resp[i].kind \in {"error", "thrown"}
              /\ log[k][Len(log[k])] = resp[i].message

C1_Witness ==
    /\ Done("fetchInvoicesPages")
    /\ resp[1].kind = "thrown"
    /\ outcome.kind = "throw"

\* C2: in fetchCardData a later query is initiated while no result of an
\* earlier one has been awaited, and a result is computed only after all three
\* answers have arrived.
C2_QueriesInitiatedTogether ==
    /\ (fn = "fetchCardData" /\ pc \in {"await2", "await3"}) => resp = <<>>
    /\ (Done("fetchCardData") /\ outcome.kind = "return") => Len(resp) = 3

\* C3: fetchRevenue throws 'Failed to fetch revenue data.' when the query
\* reports an error or yields no rows (null data or an empty row sequence),
\* and otherwise returns the rows in the order the store returned them.
C3_RevenueFailsOnErrorOrNoRows ==
    Done("fetchRevenue") =>
        IF resp[1].kind # "data" \/ Len(resp[1].data) = 0
        THEN outcome = Throw("Failed to fetch revenue data.")
        ELSE outcome = Return(revenue)

\* C5: when its three queries succeed, fetchCardData returns the count of all
\* invoice rows, the count of all customer rows, and the formatted sums in
\* cents of exactly the paid and exactly the pending invoices; data that is
\* missing counts as 0; paid plus pending never exceeds the sum over all
\* invoices whose status is paid or pending.
C5_CardTotals ==
    (Done("fetchCardData") /\ \A i \in 1..3 : resp[i].kind # "error") =>
        LET got == resp[1].kind = "data"
            paid == IF got THEN PaidCents ELSE 0
            pending == IF got THEN PendingCents ELSE 0
        IN  /\ outcome.kind = "return"
            /\ outcome.value.numberOfInvoices = (IF got THEN Len(invoices) ELSE 0)
            /\ outcome.value.numberOfCustomers =
                  (IF resp[2].kind = "data" THEN Len(customers) ELSE 0)
            /\ outcome.value.totalPaidInvoices = formatCurrency(Num(paid))
            /\ outcome.value.totalPendingInvoices = formatCurrency(Num(pending))
            /\ paid + pending <=
                  SumCents(SelectSeq(invoices,
                           LAMBDA inv : inv.status \in {"paid", "pending"}))

C5_Witness ==
    /\ Done("fetchCardData")
    /\ outcome.kind = "return"
    /\ resp[1].kind = "data"
    /\ PaidCents > 0
    /\ PendingCents > 0
    /\ Len(customers) > 0

\* C8: when the count query succeeds fetchInvoicesPages returns
\* ceil(matchingRows / 6), matchingRows being the number of joined
\* invoice-customer rows matching the filter: 0 for no row, and otherwise the
\* n with 6 * (n - 1) < matchingRows <= 6 * n.
C8_PageCountIsCeil ==
    (Done("fetchInvoicesPages") /\ resp[1].kind = "rows") =>
        LET matchingRows ==
                Cardinality({i \in 1..Len(invoices) : JoinMatches(invoices[i], args.query)})
        IN  /\ outcome.kind = "return"
            /\ matchingRows = 0 => outcome.value = 0
            /\ matchingRows > 0 =>
                  /\ ITEMS_PER_PAGE * (outcome.value - 1) < matchingRows
                  /\ matchingRows <= ITEMS_PER_PAGE * outcome.value

C8_Witness ==
    /\ Done("fetchInvoicesPages")
    /\ outcome.kind = "return"
    /\ outcome.value = 2
    /\ args.query # <<>>

\* v is the stored integer cents either formatted as currency or divided by 100.
Converted(v, cents) ==
    \/ v.type = "string" /\ v = formatCurrency(Num(cents))
    \/ v.type = "number" /\ v.num * CENTS_PER_UNIT = cents * v.den

StoredCents(id) == invoices[CHOOSE i \in 1..Len(invoices) : invoices[i].id = id].amount

CentsOf(customerId, status) ==
    SumCents(SelectSeq(invoices,
             LAMBDA inv : inv.customer_id = customerId /\ inv.status = status))

ConvertedElsewhere ==
    /\ (Done("fetchLatestInvoices") /\ outcome.kind = "return") =>
          \A i \in 1..Len(outcome.value) :
              Converted(outcome.value[i].amount, StoredCents(outcome.value[i].id))
    /\ (Done("fetchCardData") /\ outcome.kind = "return") =>
          /\ Converted(outcome.value.totalPaidInvoices,
                       IF resp[1].kind = "data" THEN PaidCents ELSE 0)
          /\ Converted(outcome.value.totalPendingInvoices,
                       IF resp[1].kind = "data" THEN PendingCents ELSE 0)
    /\ (Done("fetchInvoiceById") /\ outcome.kind = "return" /\ outcome.value.def) =>
          Converted(outcome.value.row[1].amount, StoredCents(outcome.value.row[1].id))
    /\ (Done("fetchFilteredCustomers") /\ outcome.kind = "return") =>
          \A i \in 1..Len(outcome.value) :
              /\ Converted(outcome.value[i].total_pending,
                           CentsOf(outcome.value[i].id, "pending"))
              /\ Converted(outcome.value[i].total_paid,
                           CentsOf(outcome.value[i].id, "paid"))

C6_RangeNeverNegative ==
    (fn = "fetchFilteredInvoices" /\ pc = "await1") =>
        \A req \in inflight :
            /\ req.ranged
            /\ req.from = (args.currentPage - 1) * ITEMS_PER_PAGE
            /\ req.from >= 0
            /\ req.to = req.from + 5

\* The invoices the table query pages over: all of them for the empty query
\* string, else the ones the OR-combined condition matches.
Listed(query) ==
    {i \in 1..Len(invoices) : query = <<>> \/ OrMatches(invoices[i], query)}

\* Position (from 0) of a listed invoice in date-descending order.
DateRank(i, query) ==
    Cardinality({j \in Listed(query) : invoices[j].date > invoices[i].date})

\* C7: a successful fetchFilteredInvoices(query, p) returns the rows at
\* positions (p-1)*6 .. (p-1)*6+5 of the matching invoices ordered by date
\* descending (at most 6, fewer only where the sequence ends); with the empty
\* query string no filter is sent, and a non-empty one is sent as the
\* condition of the awaited request.
C7_PageOfOrderedMatches ==
    /\ (fn = "fetchFilteredInvoices" /\ pc = "await1") =>
          \A req \in inflight :
              /\ req.orderDateDesc
              /\ req.filtered <=> args.query # <<>>
              /\ req.filtered => req.pattern = args.query
    /\ (Done("fetchFilteredInvoices") /\ resp[1].kind = "data") =>
          LET rows == outcome.value.rows
              first == (args.currentPage - 1) * ITEMS_PER_PAGE
              onPage == {i \in Listed(args.query) :
                            /\ DateRank(i, args.query) >= first
                            /\ DateRank(i, args.query) <= first + ITEMS_PER_PAGE - 1}
          IN  /\ outcome.kind = "return"
              /\ ~outcome.value.null
              /\ Len(rows) = Cardinality(onPage)
              /\ Len(rows) <= ITEMS_PER_PAGE
              /\ \A k \in 1..Len(rows) :
                    \E i \in onPage :
                        /\ invoices[i].id = rows[k].id
                        /\ DateRank(i, args.query) = first + k - 1
                        /\ rows[k].date = invoices[i].date
                        /\ rows[k].status = invoices[i].status

C7_Witness ==
    /\ Done("fetchFilteredInvoices")
    /\ resp[1].kind = "data"
    /\ args.query # <<>>
    /\ args.currentPage = 2
    /\ Len(outcome.value.rows) = 1

\* C9: fetchLatestInvoices returns an empty sequence, with no customer query,
\* when the invoices query succeeds with no rows; when it yields rows and the
\* customer query reports no error, it returns one entry per fetched invoice,
\* in the fetched order, amount formatted, and name, email and image_url
\* undefined for an invoice whose customer is absent from the customer result
\* (also when that result holds no data at all).
C9_MissingDataIsNotAnError ==
    Done("fetchLatestInvoices") =>
        /\ (resp[1].kind # "error" /\ Len(resp[1].data) = 0) =>
              outcome = Return(<<>>) /\ Len(resp) = 1
        /\ (Len(resp) = 2 /\ resp[2].kind # "error") =>
              /\ outcome.kind = "return"
              /\ Len(outcome.value) = Len(resp[1].data)
              /\ Len(outcome.value) <= LATEST_LIMIT
              /\ \A i \in 1..Len(outcome.value) :
                    /\ outcome.value[i].id = resp[1].data[i].id
                    /\ outcome.value[i].amount = formatCurrency(resp[1].data[i].amount)
                    /\ (\A k \in 1..Len(resp[2].data) :
                            resp[2].data[k].id # resp[1].data[i].customer_id) =>
                          /\ outcome.value[i].name = Undefined
                          /\ outcome.value[i].email = Undefined
                          /\ outcome.value[i].image_url = Undefined

\* The page count fetchInvoicesPages reports for a query on the current store.
PagesReported(query) == TotalPages(SqlRows(CountInvoices(query)))

\* C10: on an unchanged store the invoices counted by fetchInvoicesPages(query)
\* are the invoices fetchFilteredInvoices(query, p) pages over, so a page is
\* non-empty exactly for 1 <= p <= fetchInvoicesPages(query).
C10_PageCountMatchesPages ==
    /\ (Done("fetchFilteredInvoices") /\ resp[1].kind = "data") =>
          (Len(outcome.value.rows) > 0 <=>
              (1 <= args.currentPage /\ args.currentPage <= PagesReported(args.query)))
    /\ (Done("fetchInvoicesPages") /\ outcome.kind = "return") =>
          {i \in 1..Len(invoices) : JoinMatches(invoices[i], args.query)} = Listed(args.query)

====
